---- MODULE Spec2Model ----
(***************************************************************************)
(* A model of the 2D geometry toolkit: the Collision2D predicates and      *)
(* intersection computations, the Polygon transforms they are used with,   *)
(* the Vector2 class and the animation loop of Canvas.                     *)
(*                                                                         *)
(* Numbers.  A JavaScript number is modelled as a pair <<n, d>>:           *)
(*   d > 0            the rational n/d in lowest terms,                    *)
(*   <<0, 1>>, <<0, -1>>   +0 and -0,                                      *)
(*   <<1, 0>>, <<-1, 0>>   +Infinity and -Infinity,                        *)
(*   <<0, 0>>         NaN.                                                 *)
(* Arithmetic on finite values is exact (no rounding): the inputs are      *)
(* small integers, for which the sums and products of the code are exact   *)
(* in IEEE double precision as well.  Division by zero, signed zeros and   *)
(* NaN follow IEEE 754.  Math.sqrt is never evaluated to a numeral: each   *)
(* use of a square root in the code is modelled by the exact real          *)
(* relation it decides (SqrtLt, ...).                                      *)
(***************************************************************************)
EXTENDS Integers, Sequences, FiniteSets, TLC

VARIABLES op, args, ret, polygon, position, steps, vectors, canvas

vars == <<op, args, ret, polygon, position, steps, vectors, canvas>>

(***************************************************************************)
(* Bounds of the model.                                                    *)
(***************************************************************************)
MaxCoord == 2
MaxRadius == 2
MaxThreshold == 1
MaxOffset == 5
MaxSide == 3
MaxSteps == 2

(***************************************************************************)
(* IEEE-754 numbers over exact rationals.                                  *)
(***************************************************************************)
NaN == <<0, 0>>
Zero == <<0, 1>>
One == <<1, 1>>
Two == <<2, 1>>

Num(i) == <<i, 1>>

AbsInt(i) == IF i < 0 THEN -i ELSE i

RECURSIVE GCD(_, _)
GCD(a, b) == IF b = 0 THEN a ELSE GCD(b, a % b)

\* n/d in lowest terms with a positive denominator (n # 0, d # 0)
Norm(n, d) ==
    IF d = 1 THEN <<n, 1>>
    ELSE LET g == GCD(AbsInt(n), AbsInt(d))
             s == IF d < 0 THEN -1 ELSE 1
         IN  <<(s * n) \div g, (s * d) \div g>>

IsNaN(a) == a[1] = 0 /\ a[2] = 0
IsInf(a) == a[1] # 0 /\ a[2] = 0
IsZero(a) == a[1] = 0 /\ a[2] # 0
IsFinite(a) == a[2] # 0
\* the sign bit
SignNeg(a) == IF a[1] = 0 THEN a[2] < 0 ELSE a[1] < 0
SZero(neg) == IF neg THEN <<0, -1>> ELSE <<0, 1>>
SInf(neg) == IF neg THEN <<-1, 0>> ELSE <<1, 0>>

\* unary minus
Neg(a) ==
    IF IsNaN(a) THEN NaN
    ELSE IF IsZero(a) THEN SZero(~SignNeg(a))
    ELSE <<-a[1], a[2]>>

\* a + b
Add(a, b) ==
    IF a[2] > 0 /\ b[2] > 0
    THEN \* both finite, neither -0; x + (-x) is +0
         LET n == a[1] * b[2] + b[1] * a[2]
         IN  IF n = 0 THEN Zero ELSE Norm(n, a[2] * b[2])
    ELSE IF IsNaN(a) \/ IsNaN(b) THEN NaN
    ELSE IF IsInf(a) /\ IsInf(b) THEN (IF a = b THEN a ELSE NaN)
    ELSE IF IsInf(a) THEN a
    ELSE IF IsInf(b) THEN b
    ELSE IF IsZero(a) /\ IsZero(b) THEN SZero(SignNeg(a) /\ SignNeg(b))
    ELSE IF IsZero(a) THEN b
    ELSE a

\* a - b
Sub(a, b) == Add(a, Neg(b))

\* a * b
Mul(a, b) ==
    IF a[1] # 0 /\ b[1] # 0 /\ a[2] # 0 /\ b[2] # 0
    THEN Norm(a[1] * b[1], a[2] * b[2])
    ELSE IF IsNaN(a) \/ IsNaN(b) THEN NaN
    ELSE IF (IsInf(a) /\ IsZero(b)) \/ (IsZero(a) /\ IsInf(b)) THEN NaN
    ELSE IF IsInf(a) \/ IsInf(b) THEN SInf(SignNeg(a) # SignNeg(b))
    ELSE SZero(SignNeg(a) # SignNeg(b))

\* a / b
Div(a, b) ==
    IF a[1] # 0 /\ b[1] # 0 /\ a[2] # 0 /\ b[2] # 0
    THEN Norm(a[1] * b[2], a[2] * b[1])
    ELSE IF IsNaN(a) \/ IsNaN(b) THEN NaN
    ELSE IF (IsZero(a) /\ IsZero(b)) \/ (IsInf(a) /\ IsInf(b)) THEN NaN
    ELSE IF IsZero(b) \/ IsInf(a) THEN SInf(SignNeg(a) # SignNeg(b))
    ELSE SZero(SignNeg(a) # SignNeg(b))

\* the value compared: -0 compares as +0, every denominator is >= 0
Cmp(a) == IF IsZero(a) THEN Zero ELSE a

\* a < b (false when either is NaN)
Lt(a, b) ==
    IF a[2] > 0 /\ b[2] > 0 THEN a[1] * b[2] < b[1] * a[2]
    ELSE /\ ~IsNaN(a)
         /\ ~IsNaN(b)
         /\ IF IsInf(a) /\ IsInf(b) THEN a[1] < b[1]
            ELSE Cmp(a)[1] * Cmp(b)[2] < Cmp(b)[1] * Cmp(a)[2]

\* a == b (false when either is NaN, true of +0 and -0)
Eq(a, b) == ~IsNaN(a) /\ ~IsNaN(b) /\ Cmp(a) = Cmp(b)

Gt(a, b) == Lt(b, a)
\* a <= b
Le(a, b) ==
    IF a[2] > 0 /\ b[2] > 0 THEN a[1] * b[2] <= b[1] * a[2]
    ELSE Lt(a, b) \/ Eq(a, b)
Ge(a, b) == Le(b, a)

\* Math.abs
MathAbs(a) == IF IsNaN(a) THEN NaN ELSE IF SignNeg(a) THEN Neg(a) ELSE a

\* Math.sqrt(v) < r : sqrt of a negative number is NaN and compares false;
\* otherwise sqrt(v) >= 0, and sqrt(v) < r iff 0 < r and v < r * r
SqrtLt(v, r) ==
    /\ ~IsNaN(v)
    /\ ~IsNaN(r)
    /\ ~Lt(v, Zero)
    /\ Lt(Zero, r)
    /\ Lt(v, Mul(r, r))

(***************************************************************************)
(* Values of the library.                                                  *)
(***************************************************************************)
\* null; the code never returns an empty array, so the empty sequence is free
Null == <<>>

Pt(x, y) == [x |-> Num(x), y |-> Num(y)]
Circ(c, r) == [center |-> c, radius |-> Num(r)]

Coords == 0..MaxCoord
Points == {Pt(x, y) : x \in Coords, y \in Coords}
Segments == {<<p, q>> : p \in Points, q \in Points}
Circles == {Circ(c, r) : c \in Points, r \in 0..MaxRadius}
Thresholds == {Num(t) : t \in 0..MaxThreshold}

\* a Canvas after its constructor: _intervalId is declared and not assigned
\* (undefined); timers are the interval timers that are running, next the
\* id setInterval hands out next, thrown the message of the Error the last
\* call threw
(***************************************************************************)
(* Canvas.  _intervalId is <<>> while undefined and <<n>> when it holds    *)
(* the number n; timers is the set of interval timers the window has       *)
(* running, next the id setInterval hands out next (ids are positive and   *)
(* never reused), frames the number of times a loop callback has run.      *)
(* A method gives [canvas, ret]: the canvas after it, and <<>> for a       *)
(* normal return or <<"Error", message>> for the Error it throws.          *)
(***************************************************************************)
MaxTimers == 3
MaxFrames == 2

NewCanvas == [intervalId |-> <<>>, timers |-> {}, next |-> 1, frames |-> 0]

\* if (v): undefined and 0 are falsy
Truthy(v) == v # <<>> /\ v[1] # 0

setAnimationLoop_SecondLoop(c, loop, fps) ==
    [canvas |-> [c EXCEPT !.intervalId = <<c.next>>,
                          !.timers = @ \cup {[id |-> c.next, loop |-> loop,
                                              delay |-> Norm(1000, fps)]},
                          !.next = @ + 1],
     ret |-> <<>>]

setAnimationLoop(c, loop, fps) ==
    IF Truthy(c.intervalId)
    THEN [canvas |-> c,
          ret |-> <<"Error", "Unable to set more than 1 animation loop for one canvas">>]
    ELSE [canvas |-> [c EXCEPT !.intervalId = <<c.next>>,
                               !.timers = @ \cup {[id |-> c.next, loop |-> loop,
                                                   delay |-> Norm(1000, fps)]},
                               !.next = @ + 1],
          ret |-> <<>>]

clearAnimationLoop(c) ==
    IF ~Truthy(c.intervalId)
    THEN [canvas |-> c, ret |-> <<"Error", "No loop to stop">>]
    ELSE [canvas |-> [c EXCEPT !.timers = {t \in @ : t.id # c.intervalId[1]},
                               !.intervalId = <<0>>],
          ret |-> <<>>]


(***************************************************************************)
(* Collision2D: points, segments and circles.                              *)
(***************************************************************************)
\* the argument of Math.sqrt in PointInsideCircle and CirclesOverlapping:
\* (p1.x - p2.x) * (p1.x - p2.x) + (p1.y - p2.y) * p1.y - p2.y
DistRadicand(p1, p2) ==
    Sub(Add(Mul(Sub(p1.x, p2.x), Sub(p1.x, p2.x)),
            Mul(Sub(p1.y, p2.y), p1.y)),
        p2.y)

PointOnLineSegment_NoDirection(point, line, threshold) ==
    LET point1 == line[1]
        point2 == line[2]
        dxc == Sub(point.x, point1.x)
        dyc == Sub(point.y, point1.y)
        dxl == Sub(point2.x, point1.x)
        dyl == Sub(point2.y, point1.y)
        cross == Sub(Mul(dxc, dyl), Mul(dyc, dxl))
    IN  IF Gt(MathAbs(cross), threshold) THEN FALSE
        ELSE IF Ge(MathAbs(dxl), MathAbs(dyl))
             THEN Le(point1.x, point.x) /\ Le(point.x, point2.x)
             ELSE Le(point1.y, point.y) /\ Le(point.y, point2.y)

PointOnLineSegment(point, line, threshold) ==
    LET point1 == line[1]
        point2 == line[2]
        dxc == Sub(point.x, point1.x)
        dyc == Sub(point.y, point1.y)
        dxl == Sub(point2.x, point1.x)
        dyl == Sub(point2.y, point1.y)
        cross == Sub(Mul(dxc, dyl), Mul(dyc, dxl))
    IN  IF Gt(MathAbs(cross), threshold) THEN FALSE
        ELSE IF Ge(MathAbs(dxl), MathAbs(dyl))
             THEN IF Gt(dxl, Zero)
                  THEN Le(point1.x, point.x) /\ Le(point.x, point2.x)
                  ELSE Le(point2.x, point.x) /\ Le(point.x, point1.x)
             ELSE IF Gt(dyl, Zero)
                  THEN Le(point1.y, point.y) /\ Le(point.y, point2.y)
                  ELSE Le(point2.y, point.y) /\ Le(point.y, point1.y)

PointInsideCircle(point, circle) ==
    SqrtLt(DistRadicand(point, circle.center), circle.radius)

\* the common denominator of s and t: -s2_x * s1_y + s1_x * s2_y
Denominator(line1, line2) ==
    LET s1_x == Sub(line1[2].x, line1[1].x)
        s1_y == Sub(line1[2].y, line1[1].y)
        s2_x == Sub(line2[2].x, line2[1].x)
        s2_y == Sub(line2[2].y, line2[1].y)
    IN  Add(Mul(Neg(s2_x), s1_y), Mul(s1_x, s2_y))

\* s, the parameter along line2
ParamS(line1, line2) ==
    LET e1 == line1
        e2 == line2
        s1_x == Sub(e1[2].x, e1[1].x)
        s1_y == Sub(e1[2].y, e1[1].y)
    IN  Div(Add(Mul(Neg(s1_y), Sub(e1[1].x, e2[1].x)),
                Mul(s1_x, Sub(e1[1].y, e2[1].y))),
            Denominator(line1, line2))

\* t, the parameter along line1
ParamT(line1, line2) ==
    LET e1 == line1
        e2 == line2
        s2_x == Sub(e2[2].x, e2[1].x)
        s2_y == Sub(e2[2].y, e2[1].y)
    IN  Div(Sub(Mul(s2_x, Sub(e1[1].y, e2[1].y)),
                Mul(s2_y, Sub(e1[1].x, e2[1].x))),
            Denominator(line1, line2))

\* the point returned when s and t are in range
CrossPoint(line1, line2) ==
    LET e1 == line1
        e2 == line2
        c1 == Sub(Mul(e1[2].x, e1[1].y), Mul(e1[2].y, e1[1].x))
        c2 == Sub(Mul(e2[2].x, e2[1].y), Mul(e2[2].y, e2[1].x))
        d1x == Sub(e1[2].x, e1[1].x)
        d1y == Sub(e1[2].y, e1[1].y)
        d2x == Sub(e2[2].x, e2[1].x)
        d2y == Sub(e2[2].y, e2[1].y)
        x == Div(Sub(Mul(d1x, c2), Mul(d2x, c1)),
                 Sub(Mul(d1y, d2x), Mul(d2y, d1x)))
        y == Div(Sub(Mul(d2y, c1), Mul(d1y, c2)),
                 Sub(Mul(d2y, d1x), Mul(d1y, d2x)))
    IN  [x |-> x, y |-> y]

LineSegmentsIntersection_NegatedRange(line1, line2) ==
    LET s == ParamS(line1, line2)
        t == ParamT(line1, line2)
    IN  IF ~(Lt(s, Zero) \/ Gt(s, One) \/ Lt(t, Zero) \/ Gt(t, One))
        THEN CrossPoint(line1, line2)
        ELSE Null

LineSegmentsIntersection_OpenRange(line1, line2) ==
    LET s == ParamS(line1, line2)
        t == ParamT(line1, line2)
    IN  IF Gt(s, Zero) /\ Lt(s, One) /\ Gt(t, Zero) /\ Lt(t, One)
        THEN CrossPoint(line1, line2)
        ELSE Null

LineSegmentsIntersection(line1, line2) ==
    LET s == ParamS(line1, line2)
        t == ParamT(line1, line2)
    IN  IF Ge(s, Zero) /\ Le(s, One) /\ Ge(t, Zero) /\ Le(t, One)
        THEN CrossPoint(line1, line2)
        ELSE Null

LineSegmentsOverlapping_FiveCases(line1, line2) ==
    LET pointA == line1[1]
        pointB == line1[2]
        pointC == line2[1]
        pointD == line2[2]
    IN  \/ PointOnLineSegment(pointC, line1, Zero) /\ PointOnLineSegment(pointB, line2, Zero)
        \/ PointOnLineSegment(pointD, line1, Zero) /\ PointOnLineSegment(pointB, line2, Zero)
        \/ PointOnLineSegment(pointA, line2, Zero) /\ PointOnLineSegment(pointC, line1, Zero)
        \/ PointOnLineSegment(pointA, line2, Zero) /\ PointOnLineSegment(pointD, line1, Zero)
        \/ PointOnLineSegment(pointA, line2, Zero) /\ PointOnLineSegment(pointB, line2, Zero)

LineSegmentsOverlapping(line1, line2) ==
    LET pointA == line1[1]
        pointB == line1[2]
        pointC == line2[1]
        pointD == line2[2]
    IN  \/ PointOnLineSegment(pointC, line1, Zero) /\ PointOnLineSegment(pointB, line2, Zero)
        \/ PointOnLineSegment(pointD, line1, Zero) /\ PointOnLineSegment(pointB, line2, Zero)
        \/ PointOnLineSegment(pointA, line2, Zero) /\ PointOnLineSegment(pointC, line1, Zero)
        \/ PointOnLineSegment(pointA, line2, Zero) /\ PointOnLineSegment(pointD, line1, Zero)
        \/ PointOnLineSegment(pointA, line2, Zero) /\ PointOnLineSegment(pointB, line2, Zero)
        \/ PointOnLineSegment(pointD, line1, Zero) /\ PointOnLineSegment(pointC, line1, Zero)

CirclesOverlapping(circle1, circle2) ==
    LET p1 == circle1.center
        p2 == circle2.center
        r_sum == Add(circle1.radius, circle2.radius)
    IN  SqrtLt(DistRadicand(p1, p2), r_sum)

(***************************************************************************)
(* CirclesIntersection.  d = Math.sqrt(dy*dy + dx*dx) is kept as its       *)
(* square dd; a/d and (h/d)^2 are then rational, and a returned            *)
(* coordinate x2 +- dy*(h/d) is the quadratic surd p + q*sqrt(rad), held   *)
(* as [p, q, rad] (q = 0 and rad = 0 when the value is rational).          *)
(***************************************************************************)
\* Math.sqrt(v) > s
SqrtGt(v, s) ==
    /\ ~IsNaN(v)
    /\ ~IsNaN(s)
    /\ ~Lt(v, Zero)
    /\ (Lt(s, Zero) \/ Gt(v, Mul(s, s)))

\* the integer square root
ISqrt(n) == CHOOSE k \in 0..n : k * k <= n /\ (k + 1) * (k + 1) > n
IsSquareInt(n) == ISqrt(n) * ISqrt(n) = n
\* a finite number >= 0 with a rational square root, and that root
IsSquare(a) == IsFinite(a) /\ ~SignNeg(a) /\ IsSquareInt(a[1]) /\ IsSquareInt(a[2])
Root(a) == IF IsZero(a) THEN a ELSE <<ISqrt(a[1]), ISqrt(a[2])>>

Rational(p) == [p |-> p, q |-> Zero, rad |-> Zero]

\* p + q * Math.sqrt(rad)
Surd(p, q, rad) ==
    IF IsNaN(p) \/ IsNaN(q) \/ IsNaN(rad) \/ Lt(rad, Zero) THEN Rational(NaN)
    ELSE IF IsZero(q) \/ IsZero(rad) THEN Rational(p)
    ELSE IF IsSquare(rad) THEN Rational(Add(p, Mul(q, Root(rad))))
    ELSE [p |-> p, q |-> q, rad |-> rad]

\* a == b for two coordinates over the same radicand
SurdEq(a, b) == ~IsNaN(a.p) /\ ~IsNaN(b.p) /\ Eq(a.p, b.p) /\ Eq(a.q, b.q)

CirclesIntersection(circle1, circle2) ==
    LET x0 == circle1.center.x
        y0 == circle1.center.y
        r0 == circle1.radius
        x1 == circle2.center.x
        y1 == circle2.center.y
        r1 == circle2.radius
        dx == Sub(x1, x0)
        dy == Sub(y1, y0)
        \* d * d
        dd == Add(Mul(dy, dy), Mul(dx, dx))
    IN  IF SqrtGt(dd, Add(r0, r1)) THEN Null
        ELSE IF SqrtLt(dd, MathAbs(Sub(r0, r1))) THEN Null
        ELSE LET k == Add(Sub(Mul(r0, r0), Mul(r1, r1)), dd)
                 \* a / d, with a = k / (2.0 * d)
                 a_d == Div(k, Mul(Two, dd))
                 x2 == Add(x0, Mul(dx, a_d))
                 y2 == Add(y0, Mul(dy, a_d))
                 \* h * h = r0 * r0 - a * a
                 hh == Sub(Mul(r0, r0), Div(Mul(k, k), Mul(Num(4), dd)))
                 \* (h / d) * (h / d)
                 h_d2 == Div(hh, dd)
                 \* rx = -dy * (h / d), ry = dx * (h / d)
                 xi == Surd(x2, Neg(dy), h_d2)
                 xi_prime == Surd(x2, dy, h_d2)
                 yi == Surd(y2, dx, h_d2)
                 yi_prime == Surd(y2, Neg(dx), h_d2)
             IN  IF SurdEq(xi, xi_prime) /\ SurdEq(yi, yi_prime)
                 THEN <<[x |-> xi, y |-> yi]>>
                 ELSE <<[x |-> xi, y |-> yi], [x |-> xi_prime, y |-> yi_prime]>>

ExampleCircles == {Circ(Pt(x, 0), 5) : x \in {0, 8, 10, 20}}

(***************************************************************************)
(* Collision2D: polygons.                                                  *)
(***************************************************************************)
\* Math.sqrt(v) <= s and Math.sqrt(v) >= s, for v >= 0
SqrtLe(v, s) == Ge(s, Zero) /\ Le(v, Mul(s, s))
SqrtGe(v, s) == Le(s, Zero) \/ Ge(v, Mul(s, s))

RECURSIVE Flatten(_)
Flatten(ss) == IF ss = <<>> THEN <<>> ELSE Head(ss) \o Flatten(Tail(ss))

PointInsidePolygon_OpenChain(point, poly) ==
    LET x == point.x
        y == point.y
        n == Len(poly)
        intersect(i) ==
            LET j == i - 1
                xi == poly[i].x
                yi == poly[i].y
                xj == poly[j].x
                yj == poly[j].y
            IN  /\ Gt(yi, y) # Gt(yj, y)
                /\ Lt(x, Add(Div(Mul(Sub(xj, xi), Sub(y, yi)), Sub(yj, yi)), xi))
    IN  Cardinality({i \in 2..n : intersect(i)}) % 2 = 1

PointInsidePolygon(point, poly) ==
    LET x == point.x
        y == point.y
        n == Len(poly)
        intersect(i) ==
            LET j == IF i = 1 THEN n ELSE i - 1
                xi == poly[i].x
                yi == poly[i].y
                xj == poly[j].x
                yj == poly[j].y
            IN  /\ Gt(yi, y) # Gt(yj, y)
                /\ Lt(x, Add(Div(Mul(Sub(xj, xi), Sub(y, yi)), Sub(yj, yi)), xi))
    IN  Cardinality({i \in 1..n : intersect(i)}) % 2 = 1

GetPolygonEdges(poly) ==
    [i \in 1..Len(poly) |->
        LET iNext == IF i + 1 > Len(poly) THEN 1 ELSE i + 1
        IN  <<poly[i], poly[iNext]>>]

LineSegmentCircleIntersection_Roots_NoLowerBound(line, v1, b, c, dd) ==
    LET u1_on == ~IsZero(c) /\ SqrtGe(dd, Sub(b, c))
        u2_on == ~IsZero(c) /\ SqrtLe(dd, Sub(c, b))
        at(sign) ==
            [x |-> Surd(Add(line[1].x, Mul(v1.x, Div(b, c))),
                        Mul(sign, Div(v1.x, c)), dd),
             y |-> Surd(Add(line[1].y, Mul(v1.y, Div(b, c))),
                        Mul(sign, Div(v1.y, c)), dd)]
        retv == (IF u1_on THEN <<at(Num(-1))>> ELSE <<>>)
                    \o (IF u2_on THEN <<at(One)>> ELSE <<>>)
    IN  IF IsNaN(dd) \/ Lt(dd, Zero) THEN Null
        ELSE IF Len(retv) = 0 THEN Null
        ELSE retv

\* the tail of LineSegmentCircleIntersection once b, c and d * d are known:
\* which of u1 = (b - d) / c and u2 = (b + d) / c are in [0, 1] (c >= 0, and
\* c = 0 makes both 0 / 0), and the points line[0] + v1 * u
LineSegmentCircleIntersection_Roots(line, v1, b, c, dd) ==
    LET u1_on == ~IsZero(c) /\ SqrtLe(dd, b) /\ SqrtGe(dd, Sub(b, c))
        u2_on == ~IsZero(c) /\ SqrtGe(dd, Neg(b)) /\ SqrtLe(dd, Sub(c, b))
        \* u = b / c + sign * d / c
        at(sign) ==
            [x |-> Surd(Add(line[1].x, Mul(v1.x, Div(b, c))),
                        Mul(sign, Div(v1.x, c)), dd),
             y |-> Surd(Add(line[1].y, Mul(v1.y, Div(b, c))),
                        Mul(sign, Div(v1.y, c)), dd)]
        retv == (IF u1_on THEN <<at(Num(-1))>> ELSE <<>>)
                    \o (IF u2_on THEN <<at(One)>> ELSE <<>>)
    IN  IF IsNaN(dd) \/ Lt(dd, Zero) THEN Null
        ELSE IF Len(retv) = 0 THEN Null
        ELSE retv

\* b, c and the discriminant d * d from the two vectors
LineSegmentCircleIntersection_Discriminant(line, circle, v1, v2) ==
    LET b == Mul(Add(Mul(v1.x, v2.x), Mul(v1.y, v2.y)), Num(-2))
        c == Mul(Two, Add(Mul(v1.x, v1.x), Mul(v1.y, v1.y)))
    IN  LineSegmentCircleIntersection_Roots(line, v1, b, c,
            Sub(Mul(b, b),
                Mul(Mul(Two, c),
                    Sub(Add(Mul(v2.x, v2.x), Mul(v2.y, v2.y)),
                        Mul(circle.radius, circle.radius)))))

LineSegmentCircleIntersection(line, circle) ==
    LineSegmentCircleIntersection_Discriminant(line, circle,
        [x |-> Sub(line[2].x, line[1].x), y |-> Sub(line[2].y, line[1].y)],
        [x |-> Sub(line[1].x, circle.center.x),
         y |-> Sub(line[1].y, circle.center.y)])

PolygonsIntersection(polygon1, polygon2) ==
    LET pe1 == GetPolygonEdges(polygon1)
        pe2 == GetPolygonEdges(polygon2)
        n2 == Len(pe2)
        all == [k \in 1..(Len(pe1) * n2) |->
                   LineSegmentsIntersection(pe1[((k - 1) \div n2) + 1],
                                            pe2[((k - 1) % n2) + 1])]
        toReturn == SelectSeq(all, LAMBDA pt : pt # Null)
    IN  IF Len(toReturn) = 0 THEN Null ELSE toReturn

PolygonsOverlapping_NoContainment(polygon1, polygon2) ==
    PolygonsIntersection(polygon1, polygon2) # Null

PolygonsOverlapping(polygon1, polygon2) ==
    LET in_points == PolygonsIntersection(polygon1, polygon2)
    IN  IF in_points # Null THEN TRUE
        ELSE \/ PointInsidePolygon(polygon1[1], polygon2)
             \/ PointInsidePolygon(polygon2[1], polygon1)

CirclePolygonIntersection(circle, poly) ==
    LET poly_edges == GetPolygonEdges(poly)
        \* in_points !== null && toReturn.push(...in_points)
        pushed(in_points) == IF in_points # Null THEN in_points ELSE <<>>
        toReturn == Flatten([i \in 1..Len(poly_edges) |->
                        pushed(LineSegmentCircleIntersection(poly_edges[i], circle))])
    IN  IF Len(toReturn) = 0 THEN Null ELSE toReturn

CirclePolygonOverlapping(circle, poly) ==
    LET cross_points == CirclePolygonIntersection(circle, poly)
    IN  IF cross_points # Null THEN TRUE
        ELSE IF PointInsideCircle(poly[1], circle) THEN TRUE
        ELSE PointInsidePolygon(circle.center, poly)

(***************************************************************************)
(* Polygon.  A polygon is a sequence of vertex objects; TranslateBy and    *)
(* TranslateTo write into them.  The position handed to TranslateTo is an  *)
(* object too: one the caller just made, the one the caller kept from its  *)
(* last call, or a vertex of the polygon itself.                           *)
(***************************************************************************)
\* Math.sin(180 / nSided), the sine of 60, 45 and 30 radians, to two decimals,
\* for 3, 4 and 6 sides: the numbers of sides for which Math.cos and Math.sin
\* of the vertex angles are rational or rational multiples of sqrt(3)
SinOf180Over(nSided) ==
    CASE nSided = 3 -> Norm(-30, 100)
      [] nSided = 4 -> Norm(85, 100)
      [] nSided = 6 -> Norm(-99, 100)

\* the number of times the loop body runs: i takes the sums of k steps of
\* 2 * Math.PI / nSided while below 2 * Math.PI, and in double arithmetic
\* the sum of 6 steps of 2 * Math.PI / 6 is still below 2 * Math.PI
LoopCount(nSided) == IF nSided = 6 THEN nSided + 1 ELSE nSided

\* Math.cos(i) and Math.sin(i) after k steps, as p + q * sqrt(3), by the
\* angle in degrees
TurnDegrees(k, nSided) == ((k * 360) \div nSided) % 360

CosDegrees(d) ==
    CASE d = 0 -> <<One, Zero>>
      [] d \in {60, 300} -> <<Norm(1, 2), Zero>>
      [] d \in {90, 270} -> <<Zero, Zero>>
      [] d \in {120, 240} -> <<Norm(-1, 2), Zero>>
      [] d = 180 -> <<Num(-1), Zero>>

SinDegrees(d) ==
    CASE d \in {0, 180} -> <<Zero, Zero>>
      [] d \in {60, 120} -> <<Zero, Norm(1, 2)>>
      [] d = 90 -> <<One, Zero>>
      [] d \in {240, 300} -> <<Zero, Norm(-1, 2)>>
      [] d = 270 -> <<Num(-1), Zero>>

\* radius * t + c for t = p + q * sqrt(3)
OnCircle(radius, t, c) == Surd(Add(Mul(radius, t[1]), c), Mul(radius, t[2]), Num(3))

\* center is <<>> when the argument is left out, <<point>> otherwise
DefaultCenter(center) == IF center = <<>> THEN Pt(0, 0) ELSE center[1]

CreateRegular(nSided, sideLength, center) ==
    [k \in 1..LoopCount(nSided) |->
        [x |-> OnCircle(Div(sideLength, Mul(Two, SinOf180Over(nSided))),
                        CosDegrees(TurnDegrees(k - 1, nSided)), DefaultCenter(center).x),
         y |-> OnCircle(Div(sideLength, Mul(Two, SinOf180Over(nSided))),
                        SinDegrees(TurnDegrees(k - 1, nSided)), DefaultCenter(center).y)]]

RECURSIVE SumFrom(_, _)
SumFrom(acc, terms) ==
    IF terms = <<>> THEN acc ELSE SumFrom(Add(acc, Head(terms)), Tail(terms))

GetArea_AlwaysSigned(poly, signed) ==
    LET n == Len(poly)
        term(i) ==
            LET j == IF i = 1 THEN n ELSE i - 1
            IN  Mul(Sub(poly[j].x, poly[i].x), Add(poly[j].y, poly[i].y))
        area == SumFrom(Zero, [i \in 1..n |-> term(i)])
    IN  Div(area, Two)

\* if (signed === undefined) signed = false
DefaultSigned(signed) == IF signed = "undefined" THEN FALSE ELSE signed = "true"

GetArea(poly, signed) ==
    LET n == Len(poly)
        term(i) ==
            LET j == IF i = 1 THEN n ELSE i - 1
            IN  Mul(Sub(poly[j].x, poly[i].x), Add(poly[j].y, poly[i].y))
        area == SumFrom(Zero, [i \in 1..n |-> term(i)])
    IN  IF signed THEN Div(area, Two) ELSE Div(MathAbs(area), Two)

GetCenterPoint(poly) ==
    LET n == Len(poly)
        area == GetArea(poly, TRUE)
        nxt(i) == (i % n) + 1
        cross(i) == Sub(Mul(poly[i].x, poly[nxt(i)].y), Mul(poly[i].y, poly[nxt(i)].x))
        sx == SumFrom(Zero, [i \in 1..n |-> Mul(Add(poly[i].x, poly[nxt(i)].x), cross(i))])
        sy == SumFrom(Zero, [i \in 1..n |-> Mul(Add(poly[i].y, poly[nxt(i)].y), cross(i))])
    IN  [x |-> Div(sx, Mul(Num(6), area)), y |-> Div(sy, Mul(Num(6), area))]

PtAdd(a, b) == [x |-> Add(a.x, b.x), y |-> Add(a.y, b.y)]
PtSub(a, b) == [x |-> Sub(a.x, b.x), y |-> Sub(a.y, b.y)]

TranslateBy(poly, vector) == [i \in 1..Len(poly) |-> PtAdd(poly[i], vector)]

\* The heap of a TranslateTo call: the vertices, and the position object
\* when it is not one of them.  ref = 0: position is an object apart from
\* the polygon; ref = i > 0: position is the vertex object poly[i].
Deref(heap, ref) == IF ref = 0 THEN heap.pos ELSE heap.poly[ref]
Store(heap, ref, val) ==
    IF ref = 0 THEN [heap EXCEPT !.pos = val] ELSE [heap EXCEPT !.poly[ref] = val]

\* for (let k of polygon) { k.x += position.x; k.y += position.y; }
RECURSIVE ShiftFrom(_, _, _)
ShiftFrom(heap, ref, k) ==
    IF k > Len(heap.poly) THEN heap
    ELSE ShiftFrom(Store(heap, k, PtAdd(heap.poly[k], Deref(heap, ref))),
               ref, k + 1)

\* the heap after TranslateTo(polygon, position)
TranslateTo(heap, ref) ==
    LET cp == GetCenterPoint(heap.poly)
        moved == Store(heap, ref, PtSub(Deref(heap, ref), cp))
    IN  ShiftFrom(moved, ref, 1)

(***************************************************************************)
(* Vector2.  The numbers of this class are taken with the range of a       *)
(* double: a result above the largest finite number is an infinity, a      *)
(* non-zero result below the smallest is a zero.  MaxValue stands for      *)
(* Number.MAX_VALUE and 1 / MaxValue for Number.MIN_VALUE, scaled down.    *)
(* A component is held like a coordinate of CirclesIntersection, as        *)
(* [p, q, rad] for p + q * sqrt(rad); it is rational (q = 0) in every      *)
(* Vector2 made from numbers, and x / Math.sqrt(L) is (x / L) * sqrt(L).   *)
(* vectors is the heap of Vector2 objects: object i is vectors[i].         *)
(***************************************************************************)
MaxValue == 1000

\* v as a double holds it
Fl(v) ==
    IF ~IsFinite(v) \/ IsZero(v) THEN v
    ELSE IF Gt(MathAbs(v), Num(MaxValue)) THEN SInf(SignNeg(v))
    ELSE IF Lt(MathAbs(v), <<1, MaxValue>>) THEN SZero(SignNeg(v))
    ELSE v

\* the number a rational component holds
Val(c) == c.p

\* x || 0 in the constructor: 0, -0 and NaN are replaced by 0
OrZero(c) ==
    IF IsNaN(c.p) \/ (IsZero(c.p) /\ IsZero(c.q)) THEN Rational(Zero) ELSE c

\* new Vector2(x, y)
NewVector2(x, y) == [x |-> OrZero(x), y |-> OrZero(y)]

\* the Vector2 with the numbers x and y
Vec(x, y) == [x |-> Rational(Num(x)), y |-> Rational(Num(y))]

\* v.x * v.x + v.y * v.y
LengthSquared(v) ==
    Fl(Add(Fl(Mul(Val(v.x), Val(v.x))), Fl(Mul(Val(v.y), Val(v.y)))))

\* x / length, with length = Math.sqrt(ll) || 1
OverLength(x, ll) ==
    IF IsNaN(ll) \/ IsZero(ll) THEN Rational(Div(x, One))
    ELSE IF IsInf(ll) THEN Rational(Div(x, ll))
    ELSE IF IsSquare(ll) THEN Rational(Fl(Div(x, Root(ll))))
    ELSE IF IsZero(x) \/ ~IsFinite(x) THEN Rational(Div(x, One))
    ELSE [p |-> Zero, q |-> Div(x, ll), rad |-> ll]

\* c * s for a component c and a number s
Times(c, s) ==
    IF IsZero(c.q) THEN Rational(Fl(Mul(c.p, s)))
    ELSE IF IsNaN(s) THEN Rational(NaN)
    ELSE IF IsZero(s) THEN Rational(SZero(SignNeg(c.q) # SignNeg(s)))
    ELSE [p |-> Zero, q |-> Mul(c.q, s), rad |-> c.rad]

Vector2_Add(v1, v2) ==
    NewVector2(Rational(Fl(Add(Val(v1.x), Val(v2.x)))),
               Rational(Fl(Add(Val(v1.y), Val(v2.y)))))

Vector2_AddScalar(v, s) ==
    NewVector2(Rational(Fl(Add(Val(v.x), s))), Rational(Fl(Add(Val(v.y), s))))

Vector2_Subtract(v1, v2) ==
    NewVector2(Rational(Fl(Sub(Val(v1.x), Val(v2.x)))),
               Rational(Fl(Sub(Val(v1.y), Val(v2.y)))))

Vector2_SubtractScalar(v, s) ==
    NewVector2(Rational(Fl(Sub(Val(v.x), s))), Rational(Fl(Sub(Val(v.y), s))))

Vector2_Multiply(v1, v2) ==
    NewVector2(Rational(Fl(Mul(Val(v1.x), Val(v2.x)))),
               Rational(Fl(Mul(Val(v1.y), Val(v2.y)))))

Vector2_MultiplyScalar(v, s) ==
    NewVector2(Rational(Fl(Mul(Val(v.x), s))), Rational(Fl(Mul(Val(v.y), s))))

Vector2_Divide(v1, v2) ==
    NewVector2(Rational(Fl(Div(Val(v1.x), Val(v2.x)))),
               Rational(Fl(Div(Val(v1.y), Val(v2.y)))))

Vector2_DivideScalar(v, s) ==
    NewVector2(Rational(Fl(Div(Val(v.x), s))), Rational(Fl(Div(Val(v.y), s))))

Vector2_Normalize(v) ==
    NewVector2(OverLength(Val(v.x), LengthSquared(v)),
               OverLength(Val(v.y), LengthSquared(v)))

Vector2_SetLength(v, length) ==
    NewVector2(Times(OverLength(Val(v.x), LengthSquared(v)), length),
               Times(OverLength(Val(v.y), LengthSquared(v)), length))

\* angle is held as the pair Math.cos(angle), Math.sin(angle)
RotatedX(x, y, center, angle) ==
    Fl(Add(Fl(Sub(Fl(Mul(x, angle.cos)), Fl(Mul(y, angle.sin)))), Val(center.x)))
RotatedY(x, y, center, angle) ==
    Fl(Add(Fl(Add(Fl(Mul(x, angle.sin)), Fl(Mul(y, angle.cos)))), Val(center.y)))

Vector2_RotateAround(v, center, angle) ==
    NewVector2(
        Rational(RotatedX(Fl(Sub(Val(v.x), Val(center.x))),
                          Fl(Sub(Val(v.y), Val(center.y))), center, angle)),
        Rational(RotatedY(Fl(Sub(Val(v.x), Val(center.x))),
                          Fl(Sub(Val(v.y), Val(center.y))), center, angle)))

\* a write of x that reaches every object of the heap
SetX_EveryObject(h, this, c) == [i \in DOMAIN h |-> [h[i] EXCEPT !.x = c]]

\* the heap h after this.x = c and after this.y = c
SetX(h, this, c) == [h EXCEPT ![this].x = c]
SetY(h, this, c) == [h EXCEPT ![this].y = c]

\* this.x += v.x; this.y += v.y; on the heap h, for the objects this and v
Vector2_add(h, this, v) ==
    SetY(SetX(h, this, Rational(Fl(Add(Val(h[this].x), Val(h[v].x))))), this,
         Rational(Fl(Add(Val(h[this].y),
                          Val(SetX(h, this, Rational(Fl(Add(Val(h[this].x), Val(h[v].x)))))[v].y)))))

\* this.x += s; this.y += s
Vector2_addScalar(h, this, s) ==
    SetY(SetX(h, this, Rational(Fl(Add(Val(h[this].x), s)))), this,
         Rational(Fl(Add(Val(h[this].y), s))))

\* this.x -= v.x; this.y -= v.y; on the heap h, for the objects this and v
Vector2_subtract(h, this, v) ==
    SetY(SetX(h, this, Rational(Fl(Sub(Val(h[this].x), Val(h[v].x))))), this,
         Rational(Fl(Sub(Val(h[this].y),
                          Val(SetX(h, this, Rational(Fl(Sub(Val(h[this].x), Val(h[v].x)))))[v].y)))))

\* this.x -= s; this.y -= s
Vector2_subtractScalar(h, this, s) ==
    SetY(SetX(h, this, Rational(Fl(Sub(Val(h[this].x), s)))), this,
         Rational(Fl(Sub(Val(h[this].y), s))))

\* this.x *= v.x; this.y *= v.y; on the heap h, for the objects this and v
Vector2_multiply(h, this, v) ==
    SetY(SetX(h, this, Rational(Fl(Mul(Val(h[this].x), Val(h[v].x))))), this,
         Rational(Fl(Mul(Val(h[this].y),
                          Val(SetX(h, this, Rational(Fl(Mul(Val(h[this].x), Val(h[v].x)))))[v].y)))))

\* this.x *= s; this.y *= s
Vector2_multiplyScalar(h, this, s) ==
    SetY(SetX(h, this, Rational(Fl(Mul(Val(h[this].x), s)))), this,
         Rational(Fl(Mul(Val(h[this].y), s))))

\* this.x /= v.x; this.y /= v.y; on the heap h, for the objects this and v
Vector2_divide(h, this, v) ==
    SetY(SetX(h, this, Rational(Fl(Div(Val(h[this].x), Val(h[v].x))))), this,
         Rational(Fl(Div(Val(h[this].y),
                          Val(SetX(h, this, Rational(Fl(Div(Val(h[this].x), Val(h[v].x)))))[v].y)))))

\* this.x /= s; this.y /= s
Vector2_divideScalar(h, this, s) ==
    SetY(SetX(h, this, Rational(Fl(Div(Val(h[this].x), s)))), this,
         Rational(Fl(Div(Val(h[this].y), s))))

\* length is computed first, then this.x /= length; this.y /= length
Vector2_normalize(h, this) ==
    SetY(SetX(h, this, OverLength(Val(h[this].x), LengthSquared(h[this]))), this,
         OverLength(Val(h[this].y), LengthSquared(h[this])))

Vector2_setLength(h, this, length) ==
    SetY(SetX(h, this, Times(OverLength(Val(h[this].x), LengthSquared(h[this])), length)),
         this, Times(OverLength(Val(h[this].y), LengthSquared(h[this])), length))

\* x and y are locals taken before the writes; center.y is read after this.x
\* is written
Vector2_rotateAround_X(h, this, center, angle) ==
    SetX(h, this,
         Rational(RotatedX(Fl(Sub(Val(h[this].x), Val(h[center].x))),
                           Fl(Sub(Val(h[this].y), Val(h[center].y))),
                           h[center], angle)))
Vector2_rotateAround(h, this, center, angle) ==
    SetY(Vector2_rotateAround_X(h, this, center, angle), this,
         Rational(RotatedY(Fl(Sub(Val(h[this].x), Val(h[center].x))),
                           Fl(Sub(Val(h[this].y), Val(h[center].y))),
                           Vector2_rotateAround_X(h, this, center, angle)[center], angle)))

(***************************************************************************)
(* Inputs.                                                                 *)
(***************************************************************************)
Square(ox, oy, side) ==
    <<Pt(ox, oy), Pt(ox + side, oy), Pt(ox + side, oy + side), Pt(ox, oy + side)>>

RightTriangle(ox, oy, side) ==
    <<Pt(ox, oy), Pt(ox + side, oy), Pt(ox, oy + side)>>

\* the squares and right triangles of side 1..MaxSide with a corner at
\* (ox, oy), 0 <= ox, oy <= maxOff
Shapes(maxOff) ==
    {Square(ox, oy, side) : ox \in 0..maxOff, oy \in 0..maxOff, side \in 1..MaxSide}
        \cup {RightTriangle(ox, oy, side) :
                  ox \in 0..maxOff, oy \in 0..maxOff, side \in 1..MaxSide}

Triangles == {t \in {<<a, b, c>> : a \in Points, b \in Points, c \in Points} :
                 ~IsZero(GetArea(t, TRUE))}

Reversed(poly) == [i \in 1..Len(poly) |-> poly[Len(poly) + 1 - i]]

(***************************************************************************)
(* The calls of Collision2D on points, segments and circles.               *)
(***************************************************************************)
\* a call from the idle caller: op names the function, args holds what was
\* passed and ret what came back
Call(name, a, r) ==
    /\ op' = name
    /\ args' = a
    /\ ret' = r
    /\ UNCHANGED <<polygon, position, steps, vectors, canvas>>

CallPointOnLineSegment ==
    /\ op = "idle"
    /\ \E p \in Points, l \in Segments, th \in Thresholds :
        Call("PointOnLineSegment", [point |-> p, line |-> l, threshold |-> th],
             PointOnLineSegment(p, l, th))

CallPointInsideCircle ==
    /\ op = "idle"
    /\ \E p \in Points, c \in Circles :
        Call("PointInsideCircle", [point |-> p, circle |-> c], PointInsideCircle(p, c))

CallLineSegmentsIntersection ==
    /\ op = "idle"
    /\ \E l1 \in Segments, l2 \in Segments :
        Call("LineSegmentsIntersection", [line1 |-> l1, line2 |-> l2],
             LineSegmentsIntersection(l1, l2))

CallLineSegmentsOverlapping ==
    /\ op = "idle"
    /\ \E l1 \in Segments, l2 \in Segments :
        Call("LineSegmentsOverlapping", [line1 |-> l1, line2 |-> l2],
             LineSegmentsOverlapping(l1, l2))

CallCirclesIntersection ==
    /\ op = "idle"
    /\ \E c1 \in Circles \cup ExampleCircles, c2 \in Circles \cup ExampleCircles :
        Call("CirclesIntersection", [circle1 |-> c1, circle2 |-> c2],
             CirclesIntersection(c1, c2))

CallCirclesOverlapping ==
    /\ op = "idle"
    /\ \E c1 \in Circles, c2 \in Circles :
        Call("CirclesOverlapping", [circle1 |-> c1, circle2 |-> c2],
             CirclesOverlapping(c1, c2))

\* the caller is done with the result
Return ==
    /\ op # "idle"
    /\ op' = "idle"
    /\ args' = <<>>
    /\ ret' = Null
    /\ UNCHANGED <<polygon, position, steps, vectors, canvas>>

Init ==
    /\ op = "idle"
    /\ args = <<>>
    /\ ret = Null
    /\ polygon = Square(0, 0, 1)
    /\ position = Pt(0, 0)
    /\ steps = 0
    /\ vectors = <<>>
    /\ canvas = NewCanvas

Next ==
    \/ CallPointOnLineSegment
    \/ CallPointInsideCircle
    \/ CallCirclesIntersection
    \/ CallCirclesOverlapping
    \/ Return

Spec == Init /\ [][Next]_vars

NextIntersection ==
    \/ CallLineSegmentsIntersection
    \/ Return

SpecIntersection == Init /\ [][NextIntersection]_vars

NextOverlapping ==
    \/ CallLineSegmentsOverlapping
    \/ Return

SpecOverlapping == Init /\ [][NextOverlapping]_vars

(***************************************************************************)
(* The calls of Collision2D on polygons.                                   *)
(***************************************************************************)
CallCirclePolygonOverlapping ==
    /\ op = "idle"
    /\ \E c \in Circles, t \in Triangles :
        Call("CirclePolygonOverlapping", [circle |-> c, polygon |-> t],
             CirclePolygonOverlapping(c, t))

CallPolygonsOverlapping ==
    /\ op = "idle"
    /\ \E p1 \in Shapes(1), p2 \in Shapes(MaxOffset) :
        Call("PolygonsOverlapping", [polygon1 |-> p1, polygon2 |-> p2],
             PolygonsOverlapping(p1, p2))

NextCirclePolygon ==
    \/ CallCirclePolygonOverlapping
    \/ Return

SpecCirclePolygon == Init /\ [][NextCirclePolygon]_vars

NextPolygons ==
    \/ CallPolygonsOverlapping
    \/ Return

SpecPolygons == Init /\ [][NextPolygons]_vars

\* the segment of the documented example, [(-10,0),(10,0)]
ExampleSegment == <<Pt(-10, 0), Pt(10, 0)>>

CallLineSegmentCircleIntersection ==
    /\ op = "idle"
    /\ \E l \in Segments \cup {ExampleSegment}, c \in Circles \cup ExampleCircles :
        Call("LineSegmentCircleIntersection", [line |-> l, circle |-> c],
             LineSegmentCircleIntersection(l, c))

NextLineCircle ==
    \/ CallLineSegmentCircleIntersection
    \/ Return

SpecLineCircle == Init /\ [][NextLineCircle]_vars

\* polygons that are not convex: an L and a chevron
LShape == <<Pt(0, 0), Pt(2, 0), Pt(2, 1), Pt(1, 1), Pt(1, 2), Pt(0, 2)>>
Chevron == <<Pt(0, 0), Pt(1, 1), Pt(2, 0), Pt(1, 2)>>

\* the same polygon with the sequence starting k vertices later
StartAt(poly, k) == [i \in 1..Len(poly) |-> poly[((i + k - 1) % Len(poly)) + 1]]

\* a polygon in every winding direction and from every start vertex
Variants(poly) ==
    {StartAt(poly, k) : k \in 0..(Len(poly) - 1)}
        \cup {Reversed(StartAt(poly, k)) : k \in 0..(Len(poly) - 1)}

\* one vertex sequence for every triangle of Triangles
TriangleShapes ==
    LET rank(p) == p.x[1] * (MaxCoord + 1) + p.y[1]
    IN  {t \in Triangles : rank(t[1]) < rank(t[2]) /\ rank(t[2]) < rank(t[3])}

\* the points with coordinates 0, 1/2, 1, .., MaxCoord + 1/2
HalfCoords == {IF k = 0 THEN Zero ELSE Norm(k, 2) : k \in 0..(2 * MaxCoord + 1)}
TestPoints == {[x |-> hx, y |-> hy] : hx \in HalfCoords, hy \in HalfCoords}

CallPointInsidePolygon ==
    /\ op = "idle"
    /\ \E pt \in TestPoints, poly \in TriangleShapes \cup {Square(0, 0, 1), LShape, Chevron} :
        Call("PointInsidePolygon", [point |-> pt, polygon |-> poly],
             PointInsidePolygon(pt, poly))

NextPointPolygon ==
    \/ CallPointInsidePolygon
    \/ Return

SpecPointPolygon == Init /\ [][NextPointPolygon]_vars

(***************************************************************************)
(* A caller of Polygon: it holds one polygon and the position object of    *)
(* its last TranslateTo(polygon, {..}), and makes at most MaxSteps calls.  *)
(***************************************************************************)
InitPolygon ==
    /\ op = "idle"
    /\ args = <<>>
    /\ ret = Null
    /\ polygon \in
           LET base == {Square(0, 0, 1), Square(1, 0, 2),
                        <<Pt(0, 0), Pt(2, 0), Pt(0, 1)>>, <<Pt(0, 0), Pt(2, 1), Pt(1, 2)>>}
           IN  base \cup {Reversed(q) : q \in base}
    /\ position = Pt(0, 0)
    /\ steps = 0
    /\ vectors = <<>>
    /\ canvas = NewCanvas

DoTranslateBy ==
    \E v \in {Pt(1, 0), Pt(0, -1), Pt(2, 1)} :
        /\ steps < MaxSteps
        /\ op' = "TranslateBy"
        /\ args' = [polygon |-> polygon, vector |-> v]
        /\ ret' = Null
        /\ polygon' = TranslateBy(polygon, v)
        /\ UNCHANGED position
        /\ steps' = steps + 1
        /\ UNCHANGED <<vectors, canvas>>

\* TranslateTo(polygon, ref), the position object holding pos when called
DoTranslateTo(pos, ref) ==
    LET after == TranslateTo([poly |-> polygon, pos |-> pos], ref)
    IN  /\ steps < MaxSteps
        /\ op' = "TranslateTo"
        /\ args' = [polygon |-> polygon,
                    position |-> Deref([poly |-> polygon, pos |-> pos], ref),
                    ref |-> ref]
        /\ ret' = Null
        /\ polygon' = after.poly
        /\ position' = after.pos
        /\ steps' = steps + 1
        /\ UNCHANGED <<vectors, canvas>>

\* TranslateTo(polygon, {x: .., y: ..})
TranslateToNew == \E t \in Points : DoTranslateTo(t, 0)

\* TranslateTo(polygon, position), position the object the caller made for
\* an earlier call and kept
TranslateToHeld == DoTranslateTo(position, 0)

\* TranslateTo(polygon, polygon[i])
TranslateToVertex == \E i \in 1..Len(polygon) : DoTranslateTo(position, i)

NextPolygon ==
    \/ DoTranslateBy
    \/ TranslateToNew
    \/ TranslateToHeld
    \/ TranslateToVertex

SpecPolygon == InitPolygon /\ [][NextPolygon]_vars

\* GetArea(polygon), GetArea(polygon, false), GetArea(polygon, true), on
\* every three points, in a line or not, and on the polygons with more
\* vertices, in both directions
CallGetArea ==
    /\ op = "idle"
    /\ \E poly \in {<<a, b, c>> : a \in Points, b \in Points, c \in Points}
                     \cup Variants(LShape) \cup Variants(Chevron)
                     \cup Variants(Square(0, 0, 1)),
          signed \in {"undefined", "false", "true"} :
        Call("GetArea", [polygon |-> poly, signed |-> signed],
             GetArea(poly, DefaultSigned(signed)))

NextArea ==
    \/ CallGetArea
    \/ Return

SpecArea == Init /\ [][NextArea]_vars

(***************************************************************************)
(* The calls of CreateRegular.                                             *)
(***************************************************************************)
CallCreateRegular ==
    /\ op = "idle"
    /\ \E nSided \in {3, 4, 6}, sideLength \in 1..MaxSide,
          center \in {<<>>} \cup {<<Pt(x, y)>> : x \in -1..MaxCoord, y \in -1..MaxCoord} :
        Call("CreateRegular",
             [nSided |-> nSided, sideLength |-> Num(sideLength), center |-> center],
             CreateRegular(nSided, Num(sideLength), center))

NextRegular ==
    \/ CallCreateRegular
    \/ Return

SpecRegular == Init /\ [][NextRegular]_vars

(***************************************************************************)
(* The calls of Vector2.  Two Vector2 objects exist at the start; a static *)
(* call allocates its result as a new object and returns it, an instance   *)
(* call writes into the object it is called on and returns that object.    *)
(* ret is the identity of the returned object, args.before the heap at the *)
(* call.  One call is made in a behaviour, so that its arguments hold the  *)
(* numbers they were constructed with.                                     *)
(***************************************************************************)
VectorValues ==
    {Vec(0, 0), Vec(3, 4), Vec(1, 1), Vec(-2, 0), Vec(0, -1), Vec(100, 0),
     [x |-> Rational(Norm(1, 100)), y |-> Rational(Zero)]}

Scalars == {Num(0), Num(2), Num(-1)}

\* the Vector2 the static method returns
Static(method, h, v, w, s, angle) ==
    CASE method = "Add" -> Vector2_Add(h[v], h[w])
      [] method = "AddScalar" -> Vector2_AddScalar(h[v], s)
      [] method = "Subtract" -> Vector2_Subtract(h[v], h[w])
      [] method = "SubtractScalar" -> Vector2_SubtractScalar(h[v], s)
      [] method = "Multiply" -> Vector2_Multiply(h[v], h[w])
      [] method = "MultiplyScalar" -> Vector2_MultiplyScalar(h[v], s)
      [] method = "Divide" -> Vector2_Divide(h[v], h[w])
      [] method = "DivideScalar" -> Vector2_DivideScalar(h[v], s)
      [] method = "Normalize" -> Vector2_Normalize(h[v])
      [] method = "SetLength" -> Vector2_SetLength(h[v], s)
      [] method = "RotateAround" -> Vector2_RotateAround(h[v], h[w], angle)

\* the heap after the instance method of the same name
Instance(method, h, v, w, s, angle) ==
    CASE method = "Add" -> Vector2_add(h, v, w)
      [] method = "AddScalar" -> Vector2_addScalar(h, v, s)
      [] method = "Subtract" -> Vector2_subtract(h, v, w)
      [] method = "SubtractScalar" -> Vector2_subtractScalar(h, v, s)
      [] method = "Multiply" -> Vector2_multiply(h, v, w)
      [] method = "MultiplyScalar" -> Vector2_multiplyScalar(h, v, s)
      [] method = "Divide" -> Vector2_divide(h, v, w)
      [] method = "DivideScalar" -> Vector2_divideScalar(h, v, s)
      [] method = "Normalize" -> Vector2_normalize(h, v)
      [] method = "SetLength" -> Vector2_setLength(h, v, s)
      [] method = "RotateAround" -> Vector2_rotateAround(h, v, w, angle)

\* Vector2.Method(v, ...) for static, v.method(...) otherwise
CallVector2(static, method, v, w, s, angle) ==
    /\ op = "idle"
    /\ steps = 0
    /\ steps' = 1
    /\ op' = "Vector2"
    /\ args' = [static |-> static, method |-> method, v |-> v, w |-> w, s |-> s,
                angle |-> angle, before |-> vectors]
    /\ vectors' = IF static
                  THEN Append(vectors, Static(method, vectors, v, w, s, angle))
                  ELSE Instance(method, vectors, v, w, s, angle)
    /\ ret' = IF static THEN Len(vectors) + 1 ELSE v
    /\ UNCHANGED <<polygon, position, canvas>>

CallBinary ==
    \E static \in BOOLEAN, method \in {"Add", "Subtract", "Multiply", "Divide"},
       v, w \in DOMAIN vectors :
        CallVector2(static, method, v, w, Zero, [cos |-> One, sin |-> Zero])

CallScalar ==
    \E static \in BOOLEAN,
       method \in {"AddScalar", "SubtractScalar", "MultiplyScalar", "DivideScalar"},
       v \in DOMAIN vectors, s \in Scalars :
        CallVector2(static, method, v, v, s, [cos |-> One, sin |-> Zero])

CallNormalize ==
    \E static \in BOOLEAN, v \in DOMAIN vectors :
        CallVector2(static, "Normalize", v, v, Zero, [cos |-> One, sin |-> Zero])

CallSetLength ==
    \E static \in BOOLEAN, v \in DOMAIN vectors, s \in Scalars :
        CallVector2(static, "SetLength", v, v, s, [cos |-> One, sin |-> Zero])

CallRotateAround ==
    \* angles by their cosine and sine: 0 and the angle of the 3-4-5 triangle
    \E static \in BOOLEAN, v, center \in DOMAIN vectors,
       angle \in {[cos |-> One, sin |-> Zero], [cos |-> Norm(3, 5), sin |-> Norm(4, 5)]} :
        CallVector2(static, "RotateAround", v, center, Zero, angle)

InitVector ==
    /\ op = "idle"
    /\ args = <<>>
    /\ ret = Null
    /\ polygon = Square(0, 0, 1)
    /\ position = Pt(0, 0)
    /\ steps = 0
    /\ vectors \in {<<a, b>> : a \in VectorValues, b \in VectorValues}
    /\ canvas = NewCanvas

NextVector ==
    \/ CallBinary
    \/ CallScalar
    \/ CallNormalize
    \/ CallSetLength
    \/ CallRotateAround
    \/ Return

SpecVector == InitVector /\ [][NextVector]_vars

(***************************************************************************)
(* The calls of Canvas and the interval callback.  The callback runs       *)
(* between calls, never inside one.                                        *)
(***************************************************************************)
CallSetAnimationLoop ==
    /\ op = "idle"
    /\ canvas.next <= MaxTimers
    /\ \E loop \in {"draw", "update"}, fps \in {30, 60} :
        /\ op' = "setAnimationLoop"
        /\ args' = [loop |-> loop, fps |-> fps, before |-> canvas]
        /\ canvas' = setAnimationLoop(canvas, loop, fps).canvas
        /\ ret' = setAnimationLoop(canvas, loop, fps).ret
    /\ UNCHANGED <<polygon, position, steps, vectors>>

CallClearAnimationLoop ==
    /\ op = "idle"
    /\ op' = "clearAnimationLoop"
    /\ args' = [before |-> canvas]
    /\ canvas' = clearAnimationLoop(canvas).canvas
    /\ ret' = clearAnimationLoop(canvas).ret
    /\ UNCHANGED <<polygon, position, steps, vectors>>

\* () => loop(this._ctx), when the interval of a running timer has passed
RunLoop ==
    /\ op = "idle"
    /\ canvas.frames < MaxFrames
    /\ \E t \in canvas.timers : canvas' = [canvas EXCEPT !.frames = @ + 1]
    /\ UNCHANGED <<op, args, ret, polygon, position, steps, vectors>>

NextCanvas ==
    \/ CallSetAnimationLoop
    \/ CallClearAnimationLoop
    \/ RunLoop
    \/ Return

SpecCanvas == Init /\ [][NextCanvas]_vars

(***************************************************************************)
(* Properties of PointInsideCircle and CirclesOverlapping.                 *)
(***************************************************************************)
\* the square of the Euclidean distance between p1 and p2
DistanceSquared(p1, p2) ==
    Add(Mul(Sub(p1.x, p2.x), Sub(p1.x, p2.x)), Mul(Sub(p1.y, p2.y), Sub(p1.y, p2.y)))

\* C1: PointInsideCircle returns true exactly when the Euclidean distance
\* from the point to the circle's center is strictly less than the radius.
C1_InsideIffDistanceBelowRadius ==
    op = "PointInsideCircle" =>
        (ret <=> SqrtLt(DistanceSquared(args.point, args.circle.center),
                        args.circle.radius))

\* C2: CirclesOverlapping returns true exactly when the distance between the
\* centers is strictly less than the sum of the radii, and the result does
\* not depend on the order of the two circles.
C2_OverlapIffDistanceBelowRadiiSum ==
    op = "CirclesOverlapping" =>
        /\ ret <=> SqrtLt(DistanceSquared(args.circle1.center, args.circle2.center),
                          Add(args.circle1.radius, args.circle2.radius))
        /\ ret = CirclesOverlapping(args.circle2, args.circle1)

(***************************************************************************)
(* Properties of LineSegmentsOverlapping.                                  *)
(***************************************************************************)
\* the endpoint-on-the-other-segment tests that hold, of the four:
\* A on line2, B on line2, C on line1, D on line1 (threshold 0)
Incidences(line1, line2) ==
    {i \in 1..4 :
        IF i <= 2 THEN PointOnLineSegment(line1[i], line2, Zero)
        ELSE PointOnLineSegment(line2[i - 2], line1, Zero)}

\* C3, as the specification states it: LineSegmentsOverlapping returns true
\* exactly when at least one of the four endpoints lies on the other segment.
C3_TrueIffSomeEndpointOnOther ==
    op = "LineSegmentsOverlapping" =>
        (ret <=> Incidences(args.line1, args.line2) # {})

\* C3, as the code has it: LineSegmentsOverlapping returns true exactly when
\* at least two of the four endpoint-on-the-other-segment tests hold.
C3_TrueIffTwoEndpointTestsHold ==
    op = "LineSegmentsOverlapping" =>
        (ret <=> Cardinality(Incidences(args.line1, args.line2)) >= 2)

\* a T-junction: one endpoint of line2 inside line1 and no other incidence
C3_TJunctionGivesFalse ==
    /\ op = "LineSegmentsOverlapping"
    /\ args.line1 = <<Pt(0, 0), Pt(2, 0)>>
    /\ args.line2 = <<Pt(1, 0), Pt(1, 2)>>
    /\ Incidences(args.line1, args.line2) = {3}
    /\ ret = FALSE

(***************************************************************************)
(* Properties of LineSegmentsIntersection.                                 *)
(***************************************************************************)
PtEq(a, b) == Eq(a.x, b.x) /\ Eq(a.y, b.y)

\* line[0] + u * (line[1] - line[0])
PointAt(line, u) ==
    [x |-> Add(line[1].x, Mul(u, Sub(line[2].x, line[1].x))),
     y |-> Add(line[1].y, Mul(u, Sub(line[2].y, line[1].y)))]

\* C4: when the denominator -s2_x * s1_y + s1_x * s2_y is zero (parallel or
\* collinear segments, or a segment of zero length), LineSegmentsIntersection
\* returns null.
C4_NullWhenDenominatorZero ==
    op = "LineSegmentsIntersection" /\ IsZero(Denominator(args.line1, args.line2))
        => ret = Null

\* collinear segments that overlap: the denominator is zero and null came back
C4_CollinearOverlapGivesNull ==
    /\ op = "LineSegmentsIntersection"
    /\ args.line1 = <<Pt(0, 0), Pt(2, 0)>>
    /\ args.line2 = <<Pt(1, 0), Pt(2, 0)>>
    /\ IsZero(Denominator(args.line1, args.line2))
    /\ ret = Null

\* C5: for segments that are not parallel, s and t are the parameters of the
\* crossing of the two lines (line1[0] + t * d1 = line2[0] + s * d2), a point
\* is returned exactly when both are in [0, 1], that point is
\* line1[0] + t * d1, and [(0,0),(2,2)] against [(0,2),(2,0)] returns (1,1).
C5_PointIffParametersInUnitInterval ==
    op = "LineSegmentsIntersection" /\ ~IsZero(Denominator(args.line1, args.line2)) =>
        LET s == ParamS(args.line1, args.line2)
            t == ParamT(args.line1, args.line2)
        IN  /\ PtEq(PointAt(args.line1, t), PointAt(args.line2, s))
            /\ (ret # Null) <=>
                    (Le(Zero, s) /\ Le(s, One) /\ Le(Zero, t) /\ Le(t, One))
            /\ ret # Null => PtEq(ret, PointAt(args.line1, t))
            /\ (/\ args.line1 = <<Pt(0, 0), Pt(2, 2)>>
                /\ args.line2 = <<Pt(0, 2), Pt(2, 0)>>) => ret = Pt(1, 1)

\* the diagonals of the square of side 2 cross at (1, 1)
C5_DiagonalsCrossAtCentre ==
    /\ op = "LineSegmentsIntersection"
    /\ args.line1 = <<Pt(0, 0), Pt(2, 2)>>
    /\ args.line2 = <<Pt(0, 2), Pt(2, 0)>>
    /\ ret = Pt(1, 1)

(***************************************************************************)
(* Properties of PointOnLineSegment.                                       *)
(***************************************************************************)
\* C6: PointOnLineSegment gives the same result when the two endpoints of
\* the segment are swapped, for every point and threshold.
C6_SameResultWhenEndpointsSwapped ==
    op = "PointOnLineSegment" =>
        ret = PointOnLineSegment(args.point, <<args.line[2], args.line[1]>>,
                                 args.threshold)

\* a point found on a segment with |dx| = |dy| that runs right to left
C6_OnReversedDiagonal ==
    /\ op = "PointOnLineSegment"
    /\ args.line = <<Pt(2, 0), Pt(0, 2)>>
    /\ args.point = Pt(1, 1)
    /\ ret = TRUE

(***************************************************************************)
(* Properties of Polygon.TranslateTo.                                      *)
(***************************************************************************)
\* C7: after TranslateTo(polygon, target) on a polygon of non-zero signed
\* area, GetCenterPoint(polygon) is the target that was requested, whatever
\* calls came before.
C7_CentreIsRequestedTarget ==
    op = "TranslateTo" /\ ~IsZero(GetArea(args.polygon, TRUE)) =>
        PtEq(GetCenterPoint(polygon), args.position)

(***************************************************************************)
(* Properties of CirclePolygonOverlapping.                                 *)
(***************************************************************************)
\* (b - a) x (p - a): positive when p is to the left of the line from a to b
Side(a, b, p) ==
    Sub(Mul(Sub(b.x, a.x), Sub(p.y, a.y)), Mul(Sub(b.y, a.y), Sub(p.x, a.x)))

\* p is strictly inside the convex polygon poly: strictly on the same side
\* of every edge
StrictlyInsideConvex(p, poly) ==
    LET n == Len(poly)
        side(i) == Side(poly[i], poly[(i % n) + 1], p)
    IN  \/ \A i \in 1..n : Gt(side(i), Zero)
        \/ \A i \in 1..n : Lt(side(i), Zero)

\* every vertex of poly is at a distance below the radius from the center
AllVerticesInsideCircle(circle, poly) ==
    \A i \in 1..Len(poly) :
        SqrtLt(DistanceSquared(poly[i], circle.center), circle.radius)

\* C8: CirclePolygonOverlapping returns true when every vertex of the polygon
\* is strictly inside the circle, and when the center of the circle is
\* strictly inside the polygon.
C8_TrueOnContainment ==
    op = "CirclePolygonOverlapping" =>
        /\ AllVerticesInsideCircle(args.circle, args.polygon) => ret = TRUE
        /\ StrictlyInsideConvex(args.circle.center, args.polygon) => ret = TRUE

(***************************************************************************)
(* Properties of PolygonsOverlapping.                                      *)
(***************************************************************************)
\* C9: PolygonsOverlapping returns true exactly when PolygonsIntersection is
\* not null, or the first vertex of one polygon is inside the other; so the
\* unit squares at (0,0) and (5,5) give false, two squares sharing a corner
\* region give true, and a square nested in another gives true.
C9_TrueIffCrossingOrFirstVertexInside ==
    op = "PolygonsOverlapping" =>
        /\ ret <=> \/ PolygonsIntersection(args.polygon1, args.polygon2) # Null
                   \/ PointInsidePolygon(args.polygon1[1], args.polygon2)
                   \/ PointInsidePolygon(args.polygon2[1], args.polygon1)
        /\ (args.polygon1 = Square(0, 0, 1) /\ args.polygon2 = Square(5, 5, 1))
               => ret = FALSE
        /\ (args.polygon1 = Square(0, 0, 2) /\ args.polygon2 = Square(1, 1, 2))
               => ret = TRUE
        /\ (args.polygon1 = Square(1, 1, 1) /\ args.polygon2 = Square(0, 0, 3))
               => ret = TRUE

\* a square nested in another: no edges cross, and true came back
C9_NestedSquareGivesTrue ==
    /\ op = "PolygonsOverlapping"
    /\ args.polygon1 = Square(1, 1, 1)
    /\ args.polygon2 = Square(0, 0, 3)
    /\ PolygonsIntersection(args.polygon1, args.polygon2) = Null
    /\ ret = TRUE

(***************************************************************************)
(* Properties of CirclesIntersection.                                      *)
(***************************************************************************)
\* the point (x, y) as CirclesIntersection returns it
SurdPt(x, y) == [x |-> Rational(Num(x)), y |-> Rational(Num(y))]

\* pt is at distance r from center.  With s = sqrt(rad) irrational,
\* (a + q1 * s)^2 + (b + q2 * s)^2 = r^2 exactly when
\* a^2 + b^2 + (q1^2 + q2^2) * rad = r^2 and a * q1 + b * q2 = 0.
AtDistance(pt, center, r) ==
    LET a == Sub(pt.x.p, center.x)
        b == Sub(pt.y.p, center.y)
        rad == IF IsZero(pt.x.q) THEN pt.y.rad ELSE pt.x.rad
    IN  /\ Eq(Add(Add(Mul(a, a), Mul(b, b)),
                  Mul(Add(Mul(pt.x.q, pt.x.q), Mul(pt.y.q, pt.y.q)), rad)),
              Mul(r, r))
        /\ Eq(Add(Mul(a, pt.x.q), Mul(b, pt.y.q)), Zero)

\* what the specification says of the result found for circle1 and circle2
CirclesIntersectionContract(circle1, circle2, found) ==
    LET dd == DistanceSquared(circle1.center, circle2.center)
        r0 == circle1.radius
        r1 == circle2.radius
        r_sum == Add(r0, r1)
        r_diff == MathAbs(Sub(r0, r1))
        apart == SqrtGt(dd, r_sum) \/ SqrtLt(dd, r_diff)
        tangent == Eq(dd, Mul(r_sum, r_sum)) \/ Eq(dd, Mul(r_diff, r_diff))
    IN  /\ apart => found = Null
        /\ ~apart /\ tangent => Len(found) = 1
        /\ ~apart /\ ~tangent =>
               /\ Len(found) = 2
               /\ ~(SurdEq(found[1].x, found[2].x) /\ SurdEq(found[1].y, found[2].y))
               /\ \A i \in 1..2 : /\ AtDistance(found[i], circle1.center, r0)
                                   /\ AtDistance(found[i], circle2.center, r1)
        /\ (circle1 = Circ(Pt(0, 0), 5) /\ circle2 = Circ(Pt(8, 0), 5)) =>
               /\ Len(found) = 2
               /\ {found[1], found[2]} = {SurdPt(4, 3), SurdPt(4, -3)}
        /\ (circle1 = Circ(Pt(0, 0), 5) /\ circle2 = Circ(Pt(10, 0), 5)) =>
               found = <<SurdPt(5, 0)>>
        /\ (circle1 = Circ(Pt(0, 0), 5) /\ circle2 = Circ(Pt(20, 0), 5)) =>
               found = Null

\* C10: CirclesIntersection returns null when d > r0 + r1 or d < |r0 - r1|,
\* one point when the circles are tangent, and otherwise two distinct points,
\* each at distance r0 from the first center and r1 from the second; radius 5
\* at (0,0) and (8,0) gives {(4,3),(4,-3)}, at (0,0) and (10,0) gives (5,0),
\* at (0,0) and (20,0) gives null.
C10_NullOnePointOrTwoPoints ==
    op = "CirclesIntersection" =>
        CirclesIntersectionContract(args.circle1, args.circle2, ret)

(***************************************************************************)
(* Properties of LineSegmentCircleIntersection.                            *)
(***************************************************************************)
\* p + q * sqrt(rad) >= 0, for rad >= 0
SurdNonNeg(p, q, rad) ==
    IF IsZero(q) \/ IsZero(rad) THEN Ge(p, Zero)
    ELSE IF Ge(p, Zero) /\ Gt(q, Zero) THEN TRUE
    ELSE IF Lt(p, Zero) /\ Lt(q, Zero) THEN FALSE
    ELSE IF Ge(p, Zero) THEN Ge(Mul(p, p), Mul(Mul(q, q), rad))
    ELSE Ge(Mul(Mul(q, q), rad), Mul(p, p))

\* pt is on the segment: (pt - line[0]) x v1 = 0 and
\* 0 <= (pt - line[0]) . v1 <= v1 . v1
OnSegment(pt, line) ==
    LET v1x == Sub(line[2].x, line[1].x)
        v1y == Sub(line[2].y, line[1].y)
        a == Sub(pt.x.p, line[1].x)
        b == Sub(pt.y.p, line[1].y)
        rad == IF IsZero(pt.x.q) THEN pt.y.rad ELSE pt.x.rad
        dot_p == Add(Mul(a, v1x), Mul(b, v1y))
        dot_q == Add(Mul(pt.x.q, v1x), Mul(pt.y.q, v1y))
        len2 == Add(Mul(v1x, v1x), Mul(v1y, v1y))
    IN  /\ Eq(Sub(Mul(v1x, b), Mul(v1y, a)), Zero)
        /\ Eq(Sub(Mul(v1x, pt.y.q), Mul(v1y, pt.x.q)), Zero)
        /\ SurdNonNeg(dot_p, dot_q, rad)
        /\ SurdNonNeg(Sub(len2, dot_p), Neg(dot_q), rad)

\* the number of u in [0, 1] with line[0] + u * v1 at distance radius from
\* the center, for a segment of non-zero length: the roots in [0, 1] of
\* f(u) = A * u * u + B * u + C, A = v1 . v1, B = 2 * v1 . v2,
\* C = v2 . v2 - radius * radius, found from the signs of f(0), f(1) and
\* the discriminant, and from where the minimum is
RootsOnSegment(line, circle) ==
    LET v1x == Sub(line[2].x, line[1].x)
        v1y == Sub(line[2].y, line[1].y)
        v2x == Sub(line[1].x, circle.center.x)
        v2y == Sub(line[1].y, circle.center.y)
        A == Add(Mul(v1x, v1x), Mul(v1y, v1y))
        B == Mul(Two, Add(Mul(v1x, v2x), Mul(v1y, v2y)))
        C == Sub(Add(Mul(v2x, v2x), Mul(v2y, v2y)), Mul(circle.radius, circle.radius))
        f0 == C
        f1 == Add(Add(A, B), C)
        disc == Sub(Mul(B, B), Mul(Mul(Num(4), A), C))
        \* the minimum is at -B / (2 * A); the roots add up to -B / A
        min_at == Div(Neg(B), Mul(Two, A))
        inside(u) == Lt(Zero, u) /\ Lt(u, One)
        b2i(t) == IF t THEN 1 ELSE 0
    IN  IF Lt(disc, Zero) THEN 0
        ELSE IF IsZero(disc) THEN b2i(Le(Zero, min_at) /\ Le(min_at, One))
        ELSE IF IsZero(f0) THEN 1 + b2i(IsZero(f1)) + b2i(inside(Div(Neg(B), A)))
        ELSE IF IsZero(f1) THEN 1 + b2i(inside(Sub(Div(Neg(B), A), One)))
        ELSE IF Lt(f0, Zero) /\ Lt(f1, Zero) THEN 0
        ELSE IF Lt(f0, Zero) \/ Lt(f1, Zero) THEN 1
        ELSE IF inside(min_at) THEN 2
        ELSE 0

\* C11: LineSegmentCircleIntersection returns null or an array of one or two
\* points; every returned point is on the segment and at distance radius
\* from the center; for a segment of non-zero length the returned points are
\* all the points of the segment on the circle (null when there is none);
\* for a segment of zero length both parameters are 0 / 0 and null is
\* returned; [(-10,0),(10,0)] against center (0,0) radius 5 gives
\* {(-5,0),(5,0)}.
C11_PointsOfSegmentOnCircle ==
    op = "LineSegmentCircleIntersection" =>
        LET pts == IF ret = Null THEN {} ELSE {ret[i] : i \in 1..Len(ret)}
        IN  /\ ret # Null => Len(ret) \in 1..2
            /\ \A pt \in pts : /\ OnSegment(pt, args.line)
                                /\ AtDistance(pt, args.circle.center, args.circle.radius)
            /\ IF args.line[1] = args.line[2] THEN ret = Null
               ELSE Cardinality(pts) = RootsOnSegment(args.line, args.circle)
            /\ (args.line = ExampleSegment /\ args.circle = Circ(Pt(0, 0), 5))
                   => pts = {SurdPt(-5, 0), SurdPt(5, 0)}

\* the documented example: two crossings, at (-5,0) and (5,0)
C11_DiameterCrossesTwice ==
    /\ op = "LineSegmentCircleIntersection"
    /\ args.line = ExampleSegment
    /\ args.circle = Circ(Pt(0, 0), 5)
    /\ ret = <<SurdPt(-5, 0), SurdPt(5, 0)>>

(***************************************************************************)
(* Properties of PointInsidePolygon.                                       *)
(***************************************************************************)
\* p is in the convex polygon poly or on its boundary
InsideOrOnConvex(p, poly) ==
    LET n == Len(poly)
        side(i) == Side(poly[i], poly[(i % n) + 1], p)
    IN  \/ \A i \in 1..n : Ge(side(i), Zero)
        \/ \A i \in 1..n : Le(side(i), Zero)

\* p is on the boundary of poly: on the segment of one of its edges
OnBoundary(p, poly) ==
    \E i \in 1..Len(poly) :
        LET a == poly[i]
            b == poly[(i % Len(poly)) + 1]
            dot == Add(Mul(Sub(p.x, a.x), Sub(b.x, a.x)), Mul(Sub(p.y, a.y), Sub(b.y, a.y)))
        IN  /\ IsZero(Side(a, b, p))
            /\ Le(Zero, dot)
            /\ Le(dot, DistanceSquared(a, b))

\* the region a test polygon encloses, as a convex polygon less another:
\* the L is the square of side 2 less its upper right quarter, the chevron
\* the triangle (0,0),(2,0),(1,2) less the triangle (0,0),(2,0),(1,1); a
\* triangle or a square is itself
Enclosed(p, poly) ==
    IF poly = LShape
    THEN StrictlyInsideConvex(p, Square(0, 0, 2)) /\ ~InsideOrOnConvex(p, Square(1, 1, 1))
    ELSE IF poly = Chevron
    THEN /\ StrictlyInsideConvex(p, <<Pt(0, 0), Pt(2, 0), Pt(1, 2)>>)
         /\ ~InsideOrOnConvex(p, <<Pt(0, 0), Pt(2, 0), Pt(1, 1)>>)
    ELSE StrictlyInsideConvex(p, poly)

\* C12: for a point not on the boundary of a simple polygon,
\* PointInsidePolygon returns true when the point is inside and false when
\* it is outside, whatever the winding direction and the start vertex; in
\* the unit square (0.5,0.5) is inside and (2,2) outside.
C12_InsideIffEnclosed ==
    op = "PointInsidePolygon" /\ ~OnBoundary(args.point, args.polygon) =>
        /\ ret = Enclosed(args.point, args.polygon)
        /\ \A q \in Variants(args.polygon) : ret = PointInsidePolygon(args.point, q)
        /\ args.polygon = Square(0, 0, 1) =>
               /\ args.point = [x |-> Norm(1, 2), y |-> Norm(1, 2)] => ret = TRUE
               /\ args.point = Pt(2, 2) => ret = FALSE

\* a point inside the L whose ray to the right passes through the vertex
\* (1,1) and runs along an edge
C12_InsideTheLShape ==
    /\ op = "PointInsidePolygon"
    /\ args.polygon = LShape
    /\ args.point = [x |-> Norm(1, 2), y |-> One]
    /\ Enclosed(args.point, args.polygon)
    /\ ret = TRUE

(***************************************************************************)
(* Properties of Polygon.GetArea.                                          *)
(***************************************************************************)
\* half the shoelace sum: the sum of x_i * y_i+1 - x_i+1 * y_i over the
\* consecutive vertex pairs, the last with the first, divided by 2
Shoelace(poly) ==
    LET n == Len(poly)
        nxt(i) == (i % n) + 1
        sum[i \in 0..n] ==
            IF i = 0 THEN Zero
            ELSE Add(sum[i - 1], Sub(Mul(poly[i].x, poly[nxt(i)].y),
                                     Mul(poly[nxt(i)].x, poly[i].y)))
    IN  Div(sum[n], Two)

\* C13: GetArea(polygon, true) is half the shoelace sum; GetArea(polygon)
\* and GetArea(polygon, false) are its absolute value and never negative;
\* reversing the vertex order negates the signed area and leaves the
\* unsigned area as it is.
C13_ShoelaceAndItsAbsoluteValue ==
    op = "GetArea" =>
        IF args.signed = "true"
        THEN /\ Eq(ret, Shoelace(args.polygon))
             /\ Eq(GetArea(Reversed(args.polygon), TRUE), Neg(ret))
        ELSE /\ Eq(ret, MathAbs(Shoelace(args.polygon)))
             /\ Ge(ret, Zero)
             /\ Eq(GetArea(Reversed(args.polygon), FALSE), ret)

\* the unit square in the direction of negative signed area, signed omitted
C13_UnsignedAreaOfReversedSquare ==
    /\ op = "GetArea"
    /\ args.polygon = Reversed(Square(0, 0, 1))
    /\ args.signed = "undefined"
    /\ Lt(Shoelace(args.polygon), Zero)
    /\ ret = One

(***************************************************************************)
(* Properties of Vector2.                                                  *)
(***************************************************************************)
\* C14: for each of the eleven arithmetic operations of Vector2 the static
\* form leaves every existing Vector2 as it was and returns a new object,
\* distinct from all of them; the instance form returns the object it was
\* called on, allocates nothing, leaves every other object (its vector
\* argument among them) as it was, and the receiver then holds the numbers
\* the static form returns for the same arguments.
C14_StaticAllocatesInstanceWritesReceiver ==
    op = "Vector2" =>
        IF args.static
        THEN /\ Len(vectors) = Len(args.before) + 1
             /\ \A i \in DOMAIN args.before : vectors[i] = args.before[i]
             /\ ret = Len(vectors)
             /\ ret \notin DOMAIN args.before
        ELSE /\ ret = args.v
             /\ DOMAIN vectors = DOMAIN args.before
             /\ \A i \in DOMAIN vectors \ {args.v} : vectors[i] = args.before[i]
             /\ NewVector2(vectors[ret].x, vectors[ret].y)
                    = Static(args.method, args.before, args.v, args.w, args.s, args.angle)

\* a.add(b) on two distinct objects has changed a and returned it
C14_AddWroteTheReceiver ==
    /\ op = "Vector2"
    /\ ~args.static
    /\ args.method = "Add"
    /\ args.v # args.w
    /\ ret = args.v
    /\ vectors[args.v] # args.before[args.v]
    /\ vectors[args.w] = args.before[args.w]

\* C15: normalizing the zero vector, by Vector2.Normalize(v) or by
\* v.normalize(), gives (0, 0) and no NaN, and normalizing any other vector
\* of finite numbers gives a vector of length 1.
C15_ZeroStaysZeroOthersGetLengthOne ==
    op = "Vector2" /\ args.method = "Normalize" =>
        /\ ~IsNaN(vectors[ret].x.p)
        /\ ~IsNaN(vectors[ret].y.p)
        /\ IF args.before[args.v] = Vec(0, 0)
           THEN vectors[ret] = Vec(0, 0)
           ELSE AtDistance(vectors[ret], Pt(0, 0), One)

(***************************************************************************)
(* Properties of CreateRegular.                                            *)
(***************************************************************************)
\* the square of sin(pi / sides)
SinSquaredOfPiOver(sides) ==
    CASE sides = 3 -> Norm(3, 4)
      [] sides = 4 -> Norm(1, 2)
      [] sides = 6 -> Norm(1, 4)

\* the square of the distance between the points a and b is dd, for
\* coordinates p + q * sqrt(3)
SquaredDistanceIs(a, b, dd) ==
    /\ Eq(Add(Add(Mul(Sub(a.x.p, b.x.p), Sub(a.x.p, b.x.p)),
                  Mul(Sub(a.y.p, b.y.p), Sub(a.y.p, b.y.p))),
              Mul(Num(3), Add(Mul(Sub(a.x.q, b.x.q), Sub(a.x.q, b.x.q)),
                              Mul(Sub(a.y.q, b.y.q), Sub(a.y.q, b.y.q))))),
          dd)
    /\ Eq(Add(Mul(Sub(a.x.p, b.x.p), Sub(a.x.q, b.x.q)),
              Mul(Sub(a.y.p, b.y.p), Sub(a.y.q, b.y.q))),
          Zero)

\* C16: every vertex of CreateRegular(sides, edgeLength, center) is at the
\* distance r = edgeLength / (2 * sin(pi / sides)) from center, and every
\* two consecutive vertices, the last and the first among them, are
\* edgeLength apart.
C16_VerticesOnCircumcircleEdgeLengthApart ==
    op = "CreateRegular" =>
        LET c == [x |-> Rational(DefaultCenter(args.center).x),
                  y |-> Rational(DefaultCenter(args.center).y)]
            ee == Mul(args.sideLength, args.sideLength)
        IN  /\ \A k \in DOMAIN ret :
                SquaredDistanceIs(ret[k], c,
                                  Div(ee, Mul(Num(4), SinSquaredOfPiOver(args.nSided))))
            /\ \A k \in DOMAIN ret :
                SquaredDistanceIs(ret[k], ret[(k % Len(ret)) + 1], ee)

(***************************************************************************)
(* Properties of TranslateTo on its position argument.                     *)
(***************************************************************************)
\* C17: TranslateTo(polygon, position) writes only into the vertices of the
\* polygon: a position object that is not one of the vertices holds after
\* the call the x and y it held at the call.
C17_PositionHoldsWhatWasPassed ==
    op = "TranslateTo" /\ args.ref = 0 => PtEq(position, args.position)

(***************************************************************************)
(* Properties of Canvas.                                                   *)
(***************************************************************************)
\* C18: a canvas has at most one interval timer running in every reachable
\* state.  setAnimationLoop with a loop running throws 'Unable to set more
\* than 1 animation loop for one canvas' and starts no timer; with none
\* running (at the start, or after a clearAnimationLoop) it starts one.
\* clearAnimationLoop with no loop running throws 'No loop to stop' and
\* changes nothing; with one running it stops it.
C18_AtMostOneLoopAndGuardedCalls ==
    /\ Cardinality(canvas.timers) <= 1
    /\ op = "setAnimationLoop" =>
          IF args.before.timers # {}
          THEN /\ ret = <<"Error", "Unable to set more than 1 animation loop for one canvas">>
               /\ canvas = args.before
          ELSE /\ ret = <<>>
               /\ Cardinality(canvas.timers) = 1
               /\ \A t \in canvas.timers :
                      t.loop = args.loop /\ canvas.intervalId = <<t.id>>
    /\ op = "clearAnimationLoop" =>
          IF args.before.timers = {}
          THEN /\ ret = <<"Error", "No loop to stop">>
               /\ canvas = args.before
          ELSE /\ ret = <<>>
               /\ canvas.timers = {}

\* a loop was cleared, and the next setAnimationLoop started a new one
C18_SetAgainAfterClear ==
    /\ op = "setAnimationLoop"
    /\ args.before.intervalId = <<0>>
    /\ ret = <<>>
    /\ Cardinality(canvas.timers) = 1


====
